---- MODULE Spec2Model ----
(***************************************************************************)
(* DeceptoGuard backend: the URL threat-scoring pipeline.                  *)
(*                                                                         *)
(*   backend/utils/security_utils.py  sanitize_input, validate_url,        *)
(*                                    validate_api_request, is_safe_domain,*)
(*                                    detect_suspicious_patterns           *)
(*   backend/feature_extraction.py    extract_features                     *)
(*   backend/app.py                   load_model, health, predict,         *)
(*                                    retrain_model, calculate_mock_score, *)
(*                                    get_reasons                          *)
(*   backend/train_model.py           train_model                          *)
(*                                                                         *)
(* Python strings are modelled run-length encoded: a string is a sequence  *)
(* of runs [c |-> character, n |-> repetitions] in which neighbouring runs *)
(* hold different characters.  The encoding lets the model hold strings    *)
(* around the 2048-character limit of the code without enumerating their   *)
(* characters; every string operation below is the Python operation        *)
(* computed on that encoding.                                              *)
(***************************************************************************)
EXTENDS Integers, Sequences, FiniteSets, TLC

VARIABLES
    model,      \* app.py:18   the process-wide classifier reference
    artifact,   \* model.pkl on disk (MODEL_PATH)
    booted,     \* app.py:38   the import-time load_model() has run
    loads,      \* number of classifier objects unpickled so far
    req,        \* per client: the predict request in flight (locals, position)
    rt,         \* the retrain request in flight (locals, position)
    retrains,   \* number of retrain requests started
    model_status, \* app.py:43   what the last health response reported
    fn,         \* direct calls: the function called ("server" when the API runs)
    arg,        \* direct calls: its argument
    step,       \* direct calls: how many applications have been made
    ret,        \* direct calls: the result of the first application
    ret2        \* direct calls: the result of the second application

vars == <<model, artifact, booted, loads, req, rt, retrains, model_status, fn, arg, step, ret, ret2>>

server_vars == <<model, artifact, booted, loads, req, rt, retrains, model_status>>
call_vars   == <<fn, arg, step, ret, ret2>>

----------------------------------------------------------------------------
(* Python str, run-length encoded                                          *)

Run(ch, k) == [c |-> ch, n |-> k]

\* the halves of a sequence; the recursions below split their argument in
\* two, so that their depth grows with the logarithm of its length
Left(s)  == SubSeq(s, 1, Len(s) \div 2)
Right(s) == SubSeq(s, Len(s) \div 2 + 1, Len(s))

\* a + b, for two run-length encoded strings: the runs that meet are merged
Cat(a, b) ==
    IF a = <<>> THEN b
    ELSE IF b = <<>> THEN a
    ELSE IF a[Len(a)].c = b[1].c
        THEN SubSeq(a, 1, Len(a) - 1)
             \o <<Run(b[1].c, a[Len(a)].n + b[1].n)>>
             \o Tail(b)
        ELSE a \o b

RECURSIVE Canon(_)
\* merges neighbouring runs of one character and drops empty runs
Canon(s) ==
    IF s = <<>> THEN <<>>
    ELSE IF Len(s) = 1 THEN (IF s[1].n = 0 THEN <<>> ELSE s)
    ELSE Cat(Canon(Left(s)), Canon(Right(s)))

\* the string whose characters are the elements of the tuple cs
Str(cs) == Canon([i \in DOMAIN cs |-> Run(cs[i], 1)])

\* ch * k
Rep(ch, k) == Canon(<<Run(ch, k)>>)

RECURSIVE PyLen(_)
\* len(s)
PyLen(s) ==
    IF s = <<>> THEN 0
    ELSE IF Len(s) = 1 THEN s[1].n
    ELSE PyLen(Left(s)) + PyLen(Right(s))

\* ch in s, for a single character ch
HasChar(s, ch) == \E i \in DOMAIN s : s[i].c = ch

RECURSIVE CountIn(_, _)
\* the number of characters of s that are in the set chars
CountIn(s, chars) ==
    IF s = <<>> THEN 0
    ELSE IF Len(s) = 1 THEN (IF s[1].c \in chars THEN s[1].n ELSE 0)
    ELSE CountIn(Left(s), chars) + CountIn(Right(s), chars)

\* s.count(ch), for a single character ch
CountChar(s, ch) == CountIn(s, {ch})

\* the runs of p lie on the runs of t from run i on: the inner runs agree
\* exactly, the first run of p ends a run of t and the last one begins one
MatchAt(t, p, i) ==
    /\ i + Len(p) - 1 <= Len(t)
    /\ \A j \in 1..Len(p) :
          /\ t[i + j - 1].c = p[j].c
          /\ IF j = 1 \/ j = Len(p)
                THEN t[i + j - 1].n >= p[j].n
                ELSE t[i + j - 1].n = p[j].n

\* p in t  (substring test; also re.search of a pattern without metacharacters)
Contains(t, p) == p = <<>> \/ \E i \in 1..Len(t) : MatchAt(t, p, i)

RECURSIVE Take(_, _)
\* s[:k]
Take(s, k) ==
    IF s = <<>> \/ k <= 0 THEN <<>>
    ELSE IF Len(s) = 1 THEN (IF s[1].n <= k THEN s ELSE <<Run(s[1].c, k)>>)
    ELSE IF PyLen(Left(s)) >= k THEN Take(Left(s), k)
    ELSE Left(s) \o Take(Right(s), k - PyLen(Left(s)))

RECURSIVE Drop(_, _)
\* s[k:]
Drop(s, k) ==
    IF s = <<>> \/ k <= 0 THEN s
    ELSE IF Len(s) = 1 THEN (IF s[1].n <= k THEN <<>> ELSE <<Run(s[1].c, s[1].n - k)>>)
    ELSE IF PyLen(Left(s)) > k THEN Drop(Left(s), k) \o Right(s)
    ELSE Drop(Right(s), k - PyLen(Left(s)))

RECURSIVE RepStr(_, _)
\* r * k, for a string r
RepStr(r, k) == IF k = 0 THEN <<>> ELSE Cat(r, RepStr(r, k - 1))

RECURSIVE Replace(_, _, _)
\* s.replace(ch, r), for a single character ch and a string r
Replace(s, ch, r) ==
    IF s = <<>> THEN <<>>
    ELSE IF Len(s) = 1 THEN (IF s[1].c = ch THEN RepStr(r, s[1].n) ELSE s)
    ELSE Cat(Replace(Left(s), ch, r), Replace(Right(s), ch, r))

\* the characters str.strip(), str.lstrip() remove
Whitespace == {" ", "\t", "\n", "\r"}

\* s without its leading characters that are in chars
LStripSet(s, chars) ==
    IF \A i \in DOMAIN s : s[i].c \in chars THEN <<>>
    ELSE SubSeq(s, CHOOSE i \in DOMAIN s :
                       s[i].c \notin chars /\ \A j \in 1..(i - 1) : s[j].c \in chars,
                Len(s))

\* s without its trailing characters that are in chars
RStripSet(s, chars) ==
    IF \A i \in DOMAIN s : s[i].c \in chars THEN <<>>
    ELSE SubSeq(s, 1, CHOOSE i \in DOMAIN s :
                       s[i].c \notin chars /\ \A j \in (i + 1)..Len(s) : s[j].c \in chars)

\* s.strip()
Strip(s) == RStripSet(LStripSet(s, Whitespace), Whitespace)

UpperCase == <<"A", "B", "C", "D", "E", "F", "G", "H", "I", "J", "K", "L", "M",
               "N", "O", "P", "Q", "R", "S", "T", "U", "V", "W", "X", "Y", "Z">>
LowerCase == <<"a", "b", "c", "d", "e", "f", "g", "h", "i", "j", "k", "l", "m",
               "n", "o", "p", "q", "r", "s", "t", "u", "v", "w", "x", "y", "z">>
Digits == {"0", "1", "2", "3", "4", "5", "6", "7", "8", "9"}

IsUpper(ch) == \E i \in DOMAIN UpperCase : UpperCase[i] = ch
IsLower(ch) == \E i \in DOMAIN LowerCase : LowerCase[i] = ch
IsAlpha(ch) == IsUpper(ch) \/ IsLower(ch)

LowerChar(ch) ==
    IF IsUpper(ch)
       THEN LowerCase[CHOOSE i \in DOMAIN UpperCase : UpperCase[i] = ch]
       ELSE ch

\* s.lower()
Lower(s) == Canon([i \in DOMAIN s |-> Run(LowerChar(s[i].c), s[i].n)])

\* the position of the first run of s that holds ch, 0 when there is none
FirstRun(s, ch) ==
    IF HasChar(s, ch)
       THEN CHOOSE i \in DOMAIN s :
               s[i].c = ch /\ \A j \in 1..(i - 1) : s[j].c # ch
       ELSE 0

----------------------------------------------------------------------------
(* Python values reaching the pipeline (JSON gives str, int, null)         *)

PyStrVal(s) == [kind |-> "str", s |-> s, exp |-> 0]
\* the integer 10^k
PyIntVal(k) == [kind |-> "int", s |-> <<>>, exp |-> k]
PyNone      == [kind |-> "none", s |-> <<>>, exp |-> 0]

\* isinstance(v, str)
IsStr(v) == v.kind = "str"

\* str(v): a str is itself, 10^k prints as 1 followed by k zeros, None as
\* "None"
PyStr(v) ==
    CASE v.kind = "str"  -> v.s
      [] v.kind = "int"  -> Cat(Str(<<"1">>), Rep("0", v.exp))
      [] v.kind = "none" -> Str(<<"N", "o", "n", "e">>)

\* a test that lets every value pass
TruthyAlways(v) == TRUE

\* bool(v), as used by "if not url"
Truthy(v) ==
    CASE v.kind = "str"  -> v.s # <<>>
      [] v.kind = "int"  -> TRUE
      [] v.kind = "none" -> FALSE

----------------------------------------------------------------------------
(* backend/utils/security_utils.py                                         *)

\* html.escape(s, quote=True): five replacements, "&" first
html_escape(s) ==
    LET s1 == Replace(s,  "&",  Str(<<"&", "a", "m", "p", ";">>))
        s2 == Replace(s1, "<",  Str(<<"&", "l", "t", ";">>))
        s3 == Replace(s2, ">",  Str(<<"&", "g", "t", ";">>))
        s4 == Replace(s3, "\"", Str(<<"&", "q", "u", "o", "t", ";">>))
    IN  Replace(s4, "'", Str(<<"&", "#", "x", "2", "7", ";">>))

\* security_utils.py:30   max_length = 2048
max_length == 2048

\* sanitize_input(user_input): the returned str
sanitize_input(user_input) ==
    IF ~IsStr(user_input) THEN PyStr(user_input)
    ELSE LET s1 == Replace(user_input.s, "NUL", <<>>)
             s2 == html_escape(s1)
             s3 == IF PyLen(s2) > max_length THEN Take(s2, max_length) ELSE s2
         IN  Strip(s3)

----------------------------------------------------------------------------
(* urllib.parse.urlparse, as far as the code reads its result              *)

\* urllib/parse.py   scheme_chars
IsSchemeChar(ch) == IsAlpha(ch) \/ ch \in Digits \/ ch \in {"+", "-", "."}

\* the characters urlsplit strips from the left (C0 controls and space)
C0ControlOrSpace == Whitespace \cup {"NUL"}

\* the prefix of s before its first character out of stops
UpTo(s, stops) ==
    IF \A i \in DOMAIN s : s[i].c \notin stops THEN s
    ELSE SubSeq(s, 1, (CHOOSE i \in DOMAIN s :
                          s[i].c \in stops /\ \A j \in 1..(i - 1) : s[j].c \notin stops) - 1)

\* urlparse(url): [raised, scheme, netloc].  The URLs of the model hold no
\* "]", so of the two bracket checks only "Invalid IPv6 URL" can fire.
urlparse(url) ==
    LET u1 == LStripSet(url, C0ControlOrSpace)
        u2 == Replace(Replace(Replace(u1, "\t", <<>>), "\r", <<>>), "\n", <<>>)
        i  == FirstRun(u2, ":")
        hasScheme ==
            /\ i > 1
            /\ IsAlpha(u2[1].c)
            /\ \A j \in 1..(i - 1) : IsSchemeChar(u2[j].c)
        scheme == IF hasScheme THEN Lower(SubSeq(u2, 1, i - 1)) ELSE <<>>
        rest   == IF hasScheme
                     THEN Canon(<<Run(":", u2[i].n - 1)>> \o SubSeq(u2, i + 1, Len(u2)))
                     ELSE u2
        slashes == Take(rest, 2) = Rep("/", 2)
        netloc  == IF slashes THEN UpTo(Drop(rest, 2), {"/", "?", "#"}) ELSE <<>>
    IN  [raised |-> HasChar(netloc, "[") # HasChar(netloc, "]"),
         scheme |-> scheme,
         netloc |-> netloc]

----------------------------------------------------------------------------
(* validate_url                                                            *)

\* security_utils.py:54-65
malicious_patterns == <<
    Str(<<"j", "a", "v", "a", "s", "c", "r", "i", "p", "t", ":">>),
    Str(<<"d", "a", "t", "a", ":">>),
    Str(<<"v", "b", "s", "c", "r", "i", "p", "t", ":">>),
    Str(<<"f", "i", "l", "e", ":">>),
    Str(<<"<", "s", "c", "r", "i", "p", "t">>),
    Str(<<"<", "/", "s", "c", "r", "i", "p", "t", ">">>),
    Str(<<"<", "i", "f", "r", "a", "m", "e">>),
    Str(<<"<", "/", "i", "f", "r", "a", "m", "e", ">">>),
    Str(<<"e", "v", "a", "l", "(">>),
    Str(<<"a", "l", "e", "r", "t", "(">>) >>

Verdict(ok, msg, pat) == [valid |-> ok, msg |-> msg, pattern |-> pat]

\* the first pattern of the list found in url_lower, 0 when there is none
FirstPattern(url_lower) ==
    IF \E i \in DOMAIN malicious_patterns : Contains(url_lower, malicious_patterns[i])
       THEN CHOOSE i \in DOMAIN malicious_patterns :
               /\ Contains(url_lower, malicious_patterns[i])
               /\ \A j \in 1..(i - 1) : ~Contains(url_lower, malicious_patterns[j])
       ELSE 0

\* security_utils.py:67   url_lower = url.lower()
url_lower_nolower(url) == url

url_lower(url) == Lower(url)

\* security_utils.py:73-84   the format checks on the parsed URL
format_check(url) ==
    LET parsed == urlparse(url)
        http   == Str(<<"h", "t", "t", "p">>)
        https  == Str(<<"h", "t", "t", "p", "s">>)
    IN  IF parsed.raised THEN Verdict(FALSE, "URL parsing error", 0)
        ELSE IF parsed.scheme = <<>> \/ parsed.netloc = <<>>
            THEN Verdict(FALSE, "Invalid URL format", 0)
        ELSE IF parsed.scheme \notin {http, https}
            THEN Verdict(FALSE, "Only HTTP and HTTPS URLs are supported", 0)
        ELSE Verdict(TRUE, "", 0)

\* validate_url with the malicious-content check moved before the length check
validate_url_patterns_first(url) ==
    LET hit == FirstPattern(url_lower(url))
    IN  IF url = <<>> THEN Verdict(FALSE, "URL cannot be empty", 0)
        ELSE IF hit # 0
            THEN Verdict(FALSE, "URL contains potentially malicious content", hit)
        ELSE IF PyLen(url) > 2048
            THEN Verdict(FALSE, "URL too long (max 2048 characters)", 0)
        ELSE format_check(url)

\* validate_url(url): (is_valid, error_message); the pattern of the message
\* "URL contains potentially malicious content: <pattern>" is kept as its
\* position in malicious_patterns
validate_url(url) ==
    LET hit == FirstPattern(url_lower(url))
    IN  IF url = <<>> THEN Verdict(FALSE, "URL cannot be empty", 0)
        ELSE IF PyLen(url) > 2048
            THEN Verdict(FALSE, "URL too long (max 2048 characters)", 0)
        ELSE IF hit # 0
            THEN Verdict(FALSE, "URL contains potentially malicious content", hit)
        ELSE format_check(url)

\* validate_api_request with validate_url applied to the url as received
validate_api_request_unsanitized(request_data) ==
    IF request_data.kind # "dict"
       THEN [valid |-> FALSE, msg |-> "Request data must be a JSON object",
             pattern |-> 0, url |-> <<>>]
    ELSE IF ~request_data.has_url
       THEN [valid |-> FALSE, msg |-> "Missing required field: url",
             pattern |-> 0, url |-> <<>>]
    ELSE LET v == validate_url(PyStr(request_data.url))
         IN  IF ~v.valid
                THEN [valid |-> FALSE, msg |-> v.msg, pattern |-> v.pattern, url |-> <<>>]
                ELSE [valid |-> TRUE, msg |-> "", pattern |-> 0,
                      url |-> PyStr(request_data.url)]

\* validate_api_request(request_data): (is_valid, error_message, sanitized
\* url); pattern is the pattern the error message of validate_url names.
\* request_data is [kind, has_url, url]: kind "dict" for a JSON object
validate_api_request(request_data) ==
    IF request_data.kind # "dict"
       THEN [valid |-> FALSE, msg |-> "Request data must be a JSON object",
             pattern |-> 0, url |-> <<>>]
    ELSE IF ~request_data.has_url
       THEN [valid |-> FALSE, msg |-> "Missing required field: url",
             pattern |-> 0, url |-> <<>>]
    ELSE LET sanitized_url == sanitize_input(request_data.url)
             v == validate_url(sanitized_url)
         IN  IF ~v.valid
                THEN [valid |-> FALSE, msg |-> v.msg, pattern |-> v.pattern, url |-> <<>>]
                ELSE [valid |-> TRUE, msg |-> "", pattern |-> 0, url |-> sanitized_url]

RECURSIVE Split(_, _)
\* s.split(ch), for a single character ch: the parts between the ch's, one
\* more than there are ch's
Split(s, ch) ==
    IF s = <<>> THEN << <<>> >>
    ELSE IF Len(s) = 1
        THEN (IF s[1].c = ch THEN [i \in 1..(s[1].n + 1) |-> <<>>] ELSE <<s>>)
    ELSE LET l == Split(Left(s), ch)
             r == Split(Right(s), ch)
         IN  SubSeq(l, 1, Len(l) - 1) \o <<Cat(l[Len(l)], r[1])>> \o Tail(r)

RECURSIVE Join(_, _)
\* ch.join(parts)
Join(parts, ch) ==
    IF parts = <<>> THEN <<>>
    ELSE IF Len(parts) = 1 THEN parts[1]
    ELSE Cat(Cat(Join(Left(parts), ch), Rep(ch, 1)), Join(Right(parts), ch))

\* security_utils.py:100-110
safe_domains ==
    { Str(<<"g", "o", "o", "g", "l", "e", ".", "c", "o", "m">>),
      Str(<<"g", "m", "a", "i", "l", ".", "c", "o", "m">>),
      Str(<<"y", "o", "u", "t", "u", "b", "e", ".", "c", "o", "m">>),
      Str(<<"f", "a", "c", "e", "b", "o", "o", "k", ".", "c", "o", "m">>),
      Str(<<"i", "n", "s", "t", "a", "g", "r", "a", "m", ".", "c", "o", "m">>),
      Str(<<"w", "h", "a", "t", "s", "a", "p", "p", ".", "c", "o", "m">>),
      Str(<<"a", "m", "a", "z", "o", "n", ".", "c", "o", "m">>),
      Str(<<"a", "w", "s", ".", "a", "m", "a", "z", "o", "n", ".", "c", "o", "m">>),
      Str(<<"m", "i", "c", "r", "o", "s", "o", "f", "t", ".", "c", "o", "m">>),
      Str(<<"o", "f", "f", "i", "c", "e", ".", "c", "o", "m">>),
      Str(<<"o", "u", "t", "l", "o", "o", "k", ".", "c", "o", "m">>),
      Str(<<"a", "p", "p", "l", "e", ".", "c", "o", "m">>),
      Str(<<"i", "c", "l", "o", "u", "d", ".", "c", "o", "m">>),
      Str(<<"g", "i", "t", "h", "u", "b", ".", "c", "o", "m">>),
      Str(<<"s", "t", "a", "c", "k", "o", "v", "e", "r", "f", "l", "o", "w", ".", "c", "o", "m">>),
      Str(<<"w", "i", "k", "i", "p", "e", "d", "i", "a", ".", "o", "r", "g">>),
      Str(<<"w", "i", "k", "i", "m", "e", "d", "i", "a", ".", "o", "r", "g">>),
      Str(<<"l", "i", "n", "k", "e", "d", "i", "n", ".", "c", "o", "m">>),
      Str(<<"t", "w", "i", "t", "t", "e", "r", ".", "c", "o", "m">>),
      Str(<<"p", "a", "y", "p", "a", "l", ".", "c", "o", "m">>),
      Str(<<"e", "b", "a", "y", ".", "c", "o", "m">>),
      Str(<<"n", "e", "t", "f", "l", "i", "x", ".", "c", "o", "m">>),
      Str(<<"s", "p", "o", "t", "i", "f", "y", ".", "c", "o", "m">>) }

\* the test of line 116 on the characters the domain ends with, whatever
\* stands in front of them
is_safe_domain_endswith(domain) ==
    /\ Truthy(domain)
    /\ \E k \in 0..PyLen(domain.s) : Drop(Lower(domain.s), k) \in safe_domains

\* is_safe_domain(domain), security_utils.py:86-120
is_safe_domain(domain) ==
    /\ Truthy(domain)
    /\ LET domain_parts == Split(Lower(domain.s), ".")
       IN  \E i \in 1..Len(domain_parts) :
              LET test_domain ==
                    Join(SubSeq(domain_parts, i, Len(domain_parts)), ".")
              IN  test_domain \in safe_domains

----------------------------------------------------------------------------
(* backend/feature_extraction.py                                           *)

\* the domain with every digit written "d" and every character other than a
\* digit or "." written "o": what the search for ip_pattern depends on
DigitClasses(domain) ==
    Canon([i \in DOMAIN domain |->
              IF domain[i].c \in Digits THEN Run("d", domain[i].n)
              ELSE IF domain[i].c = "." THEN domain[i]
              ELSE Run("o", 1)])

\* re.search(r'\d{1,3}\.\d{1,3}\.\d{1,3}\.\d{1,3}', domain): four groups of
\* digits joined by single dots; the search may start inside the first group
\* and stop inside the last, the two inner groups are matched whole
ip_search(domain) ==
    LET k == DigitClasses(domain)
    IN  \E i \in 1..(Len(k) - 6) :
           /\ \A j \in {0, 2, 4, 6} : k[i + j].c = "d"
           /\ \A j \in {1, 3, 5} : k[i + j].c = "." /\ k[i + j].n = 1
           /\ \A j \in {2, 4} : k[i + j].n <= 3

\* feature_extraction.py:37
brands == <<
    Str(<<"g", "o", "o", "g", "l", "e">>),
    Str(<<"f", "a", "c", "e", "b", "o", "o", "k">>),
    Str(<<"p", "a", "y", "p", "a", "l">>),
    Str(<<"a", "m", "a", "z", "o", "n">>),
    Str(<<"n", "e", "t", "f", "l", "i", "x">>),
    Str(<<"m", "i", "c", "r", "o", "s", "o", "f", "t">>),
    Str(<<"a", "p", "p", "l", "e">>) >>

\* the list of lines 43-52 with the affixes standing alone, without the brand
typo_patterns_bare_affixes(brand) == <<
    Replace(brand, "o", Str(<<"0">>)),
    Replace(brand, "l", Str(<<"1">>)),
    Replace(brand, "i", Str(<<"1">>)),
    Replace(brand, "e", Str(<<"3">>)),
    Str(<<"-", "l", "o", "g", "i", "n">>),
    Str(<<"-", "v", "e", "r", "i", "f", "y">>),
    Str(<<"-", "s", "e", "c", "u", "r", "e">>),
    Str(<<"s", "e", "c", "u", "r", "e", "-">>) >>

\* feature_extraction.py:43-52
typo_patterns(brand) == <<
    Replace(brand, "o", Str(<<"0">>)),
    Replace(brand, "l", Str(<<"1">>)),
    Replace(brand, "i", Str(<<"1">>)),
    Replace(brand, "e", Str(<<"3">>)),
    Cat(brand, Str(<<"-", "l", "o", "g", "i", "n">>)),
    Cat(brand, Str(<<"-", "v", "e", "r", "i", "f", "y">>)),
    Cat(brand, Str(<<"-", "s", "e", "c", "u", "r", "e">>)),
    Cat(Str(<<"s", "e", "c", "u", "r", "e", "-">>), brand) >>

\* the list of line 43-52 for each brand of the loop of line 40 (the lists
\* depend on the brand alone)
patterns_of_brand == [b \in DOMAIN brands |-> typo_patterns(brands[b])]

\* the test of line 55 without its second conjunct
brand_typo_any_pattern(domain) ==
    LET domain_lower == Lower(domain)
    IN  IF \E b \in DOMAIN brands :
              \E q \in DOMAIN patterns_of_brand[b] :
                 Contains(domain_lower, patterns_of_brand[b][q])
           THEN 1 ELSE 0

\* feature_extraction.py:38-60   the two loops leave has_brand_typo at 1 as
\* soon as one pattern of one brand passes the test of line 55
brand_typo(domain) ==
    LET domain_lower == Lower(domain)
    IN  IF \E b \in DOMAIN brands :
              LET brand    == brands[b]
                  patterns == patterns_of_brand[b]
              IN  \E q \in DOMAIN patterns :
                     /\ Contains(domain_lower, patterns[q])
                     /\ ~Contains(domain_lower, brand)
           THEN 1 ELSE 0

\* backend/utils/security_utils.py: detect_suspicious_patterns, which shares
\* the search for ip_pattern with extract_features

\* s.endswith(suffix)
EndsWith(s, suffix) ==
    PyLen(s) >= PyLen(suffix) /\ Drop(s, PyLen(s) - PyLen(suffix)) = suffix

\* a character whose code point is above 127
NonAscii == {"U+00E9"}

\* security_utils.py:145
suspicious_tlds == <<
    [s |-> Str(<<".", "t", "k">>), text |-> "Suspicious TLD: .tk"],
    [s |-> Str(<<".", "m", "l">>), text |-> "Suspicious TLD: .ml"],
    [s |-> Str(<<".", "c", "f">>), text |-> "Suspicious TLD: .cf"],
    [s |-> Str(<<".", "g", "a">>), text |-> "Suspicious TLD: .ga"],
    [s |-> Str(<<".", "p", "h">>), text |-> "Suspicious TLD: .ph"],
    [s |-> Str(<<".", "c", "c">>), text |-> "Suspicious TLD: .cc"] >>

\* security_utils.py:151
shorteners == <<
    [s |-> Str(<<"b", "i", "t", ".", "l", "y">>), text |-> "URL shortener: bit.ly"],
    [s |-> Str(<<"t", "i", "n", "y", "u", "r", "l", ".", "c", "o", "m">>), text |-> "URL shortener: tinyurl.com"],
    [s |-> Str(<<"t", ".", "c", "o">>), text |-> "URL shortener: t.co"],
    [s |-> Str(<<"g", "o", "o", ".", "g", "l">>), text |-> "URL shortener: goo.gl"],
    [s |-> Str(<<"o", "w", ".", "l", "y">>), text |-> "URL shortener: ow.ly"],
    [s |-> Str(<<"i", "s", ".", "g", "d">>), text |-> "URL shortener: is.gd"] >>

\* the texts of the entries of a list, in the order of the list
Texts(hits) == [i \in DOMAIN hits |-> hits[i].text]

\* the test of line 141 with the bound of app.py:266 in its place
excessive_subdomains_gt3(netloc) == CountChar(netloc, ".") > 3

\* security_utils.py:141   parsed.netloc.count('.') > 4
excessive_subdomains(netloc) == CountChar(netloc, ".") > 4

\* detect_suspicious_patterns(url), security_utils.py:122-164: [raised,
\* value]; raised when urlparse raises
detect_suspicious_patterns(url) ==
    LET parsed == urlparse(url)
        suspicious ==
          (IF ip_search(url) THEN <<"IP address instead of domain">> ELSE <<>>)
          \o (IF excessive_subdomains(parsed.netloc)
                 THEN <<"Excessive subdomains">> ELSE <<>>)
          \o Texts(SelectSeq(suspicious_tlds, LAMBDA tld : EndsWith(url, tld.s)))
          \o Texts(SelectSeq(shorteners,
                             LAMBDA shortener : Contains(parsed.netloc, shortener.s)))
          \o (IF \E i \in DOMAIN url : url[i].c \in NonAscii
                 THEN <<"Contains non-ASCII characters (possible homograph attack)">>
                 ELSE <<>>)
          \o (IF PyLen(url) > 100 THEN <<"Unusually long URL">> ELSE <<>>)
    IN  IF parsed.raised THEN [raised |-> TRUE, value |-> <<>>]
        ELSE [raised |-> FALSE, value |-> suspicious]

\* line 34 with the result kept from falling below zero
count_subdomains_clamped(domain) ==
    IF domain # <<>> /\ CountChar(domain, ".") >= 1
       THEN CountChar(domain, ".") - 1 ELSE 0

\* feature_extraction.py:34   domain.count('.') - 1 if domain else 0
count_subdomains(domain) ==
    IF domain # <<>> THEN CountChar(domain, ".") - 1 ELSE 0

\* extract_features(url): [raised, value]; raised when urlparse raises (a
\* ValueError for a str, an AttributeError for a value that is no str), and
\* value is then never produced
extract_features(url) ==
    IF ~IsStr(url) THEN [raised |-> TRUE, value |-> <<>>]
    ELSE
    LET parsed == urlparse(url.s)
        domain == parsed.netloc
        url_length     == PyLen(url.s)
        has_ip         == IF ip_search(domain) THEN 1 ELSE 0
        has_at         == IF HasChar(url.s, "@") THEN 1 ELSE 0
        num_digits     == CountIn(url.s, Digits)
        has_https      == IF parsed.scheme = Str(<<"h", "t", "t", "p", "s">>) THEN 1 ELSE 0
        num_subdomains == count_subdomains(domain)
        has_brand_typo == brand_typo(domain)
    IN  IF parsed.raised THEN [raised |-> TRUE, value |-> <<>>]
        ELSE [raised |-> FALSE,
              value  |-> <<url_length, has_ip, has_at, num_digits,
                           has_https, num_subdomains, has_brand_typo>>]

----------------------------------------------------------------------------
(* backend/app.py: the pure parts                                          *)

\* min(a, b)
Min(a, b) == IF a < b THEN a ELSE b

\* calculate_mock_score without the final min(score, 100)
calculate_mock_score_unclamped(features) ==
    (IF features[1] > 75 THEN 25 ELSE 0)
    + (IF features[2] = 1 THEN 30 ELSE 0)
    + (IF features[3] = 1 THEN 20 ELSE 0)
    + (IF features[5] = 0 THEN 15 ELSE 0)
    + (IF features[7] = 1 THEN 35 ELSE 0)
    + (IF features[6] > 3 THEN 10 ELSE 0)

\* calculate_mock_score(features), app.py:158-188
calculate_mock_score(features) ==
    LET url_length     == features[1]
        has_ip         == features[2]
        has_at         == features[3]
        has_https      == features[5]
        num_subdomains == features[6]
        has_brand_typo == features[7]
        s1 == IF url_length > 75 THEN 25 ELSE 0
        s2 == IF has_ip = 1 THEN s1 + 30 ELSE s1
        s3 == IF has_at = 1 THEN s2 + 20 ELSE s2
        s4 == IF has_https = 0 THEN s3 + 15 ELSE s3
        s5 == IF has_brand_typo = 1 THEN s4 + 35 ELSE s4
        s6 == IF num_subdomains > 3 THEN s5 + 10 ELSE s5
    IN  Min(s6, 100)

\* get_reasons with the tests of lines 264 and 266 in the other order
get_reasons_swapped(features) ==
    LET reasons ==
          (IF features[1] > 75 THEN <<"Unusually long URL detected (potential obfuscation)">> ELSE <<>>)
          \o (IF features[2] = 1 THEN <<"URL contains IP address instead of domain name">> ELSE <<>>)
          \o (IF features[3] = 1 THEN <<"URL contains @ symbol (potential redirect)">> ELSE <<>>)
          \o (IF features[5] = 0 THEN <<"Not using secure HTTPS protocol">> ELSE <<>>)
          \o (IF features[6] > 3 THEN <<"Excessive number of subdomains">> ELSE <<>>)
          \o (IF features[7] = 1 THEN <<"Possible brand impersonation detected">> ELSE <<>>)
          \o (IF features[4] > 10 THEN <<"High number of digits in URL (suspicious pattern)">> ELSE <<>>)
    IN  IF reasons = <<>> THEN <<"URL appears to follow standard patterns">> ELSE reasons

\* get_reasons(features), app.py:242-274
get_reasons(features) ==
    LET reasons ==
          (IF features[1] > 75 THEN <<"Unusually long URL detected (potential obfuscation)">> ELSE <<>>)
          \o (IF features[2] = 1 THEN <<"URL contains IP address instead of domain name">> ELSE <<>>)
          \o (IF features[3] = 1 THEN <<"URL contains @ symbol (potential redirect)">> ELSE <<>>)
          \o (IF features[5] = 0 THEN <<"Not using secure HTTPS protocol">> ELSE <<>>)
          \o (IF features[7] = 1 THEN <<"Possible brand impersonation detected">> ELSE <<>>)
          \o (IF features[6] > 3 THEN <<"Excessive number of subdomains">> ELSE <<>>)
          \o (IF features[4] > 10 THEN <<"High number of digits in URL (suspicious pattern)">> ELSE <<>>)
    IN  IF reasons = <<>> THEN <<"URL appears to follow standard patterns">> ELSE reasons

----------------------------------------------------------------------------
(* The classifier object (sklearn RandomForestClassifier, opaque to the    *)
(* code).  p1 is the probability of the phishing class it returns, in      *)
(* units of 1/ProbScale; id tells the unpickled objects apart.             *)

ProbScale == 100 * 100

\* app.py:18   model = None
NoModel == [id |-> 0, p1 |-> 0]

Classifier(k, p) == [id |-> k, p1 |-> p]

\* model.predict([features])[0]: the class of the larger probability, the
\* first class (0, legitimate) on a tie
ModelPredict(m, features) == IF 2 * m.p1 > ProbScale THEN 1 ELSE 0

\* model.predict_proba([features])[0]: <<P(legitimate), P(phishing)>>
ModelPredictProba(m, features) == <<ProbScale - m.p1, m.p1>>

\* round(confidence, 3), on a value in units of 1/ProbScale
Round3(x) == ((x + 5) \div 10) * 10

\* app.py:101   confidence = 0.8
MockConfidence == (8 * ProbScale) \div 10

\* app.py:103-106
mock_status(phishing_score) ==
    IF phishing_score >= 70 THEN "Phishing" ELSE "Safe"

\* app.py:98-106   the fallback branch of predict
mock_prediction(features) ==
    LET phishing_score == calculate_mock_score(features)
    IN  [phishing_score |-> phishing_score,
         confidence     |-> MockConfidence,
         status         |-> mock_status(phishing_score)]

\* app.py:89-96   status, confidence and score from the two classifier answers
model_prediction(prediction, probability) ==
    IF prediction = 1
       THEN [status         |-> "Phishing",
             confidence     |-> probability[2],
             phishing_score |-> (probability[2] * 100) \div ProbScale]
       ELSE [status         |-> "Safe",
             confidence     |-> probability[1],
             phishing_score |-> ((ProbScale - probability[1]) * 100) \div ProbScale]

----------------------------------------------------------------------------
(* The API process: app.py                                                 *)

\* predict requests in flight while retrain and health run
NumClients == 1
\* retrain requests served in one run
MaxRetrains == 1

Clients == 1..NumClients

\* P(phishing) answered by the classifiers of the model, in 1/ProbScale
ProbLevels == {2000, 9960}

\* model.pkl: absent, unreadable (truncated or damaged), or the pickle of a
\* classifier answering p1
NoArtifact      == [state |-> "absent",  p1 |-> 0]
DamagedArtifact == [state |-> "corrupt", p1 |-> 0]
Pickled(p)      == [state |-> "ok",      p1 |-> p]

\* URLs sent to /predict
UrlGoogle  == Str(<<"h", "t", "t", "p", "s", ":", "/", "/", "w", "w", "w", ".",
                    "g", "o", "o", "g", "l", "e", ".", "c", "o", "m">>)
\* 7 + 2041 + 1 = 2049 characters
UrlTooLong == Cat(Str(<<"h", "t", "t", "p", ":", "/", "/">>),
                  Cat(Rep("a", 2041), Str(<<"/">>)))
UrlBracket == Str(<<"h", "t", "t", "p", ":", "/", "/", "[">>)

\* request bodies as request.get_json() returns them
NoJson       == [kind |-> "none", has_url |-> FALSE, url |-> PyNone]
JsonNoUrl    == [kind |-> "dict", has_url |-> FALSE, url |-> PyNone]
JsonUrl(v)   == [kind |-> "dict", has_url |-> TRUE,  url |-> v]

Bodies ==
    {NoJson, JsonNoUrl}
    \cup {JsonUrl(PyStrVal(u)) : u \in {<<>>, UrlGoogle, UrlTooLong, UrlBracket}}

\* data.get('url', ''), app.py:74
UrlOf(body) == IF body.has_url THEN body.url ELSE PyStrVal(<<>>)

\* extract_features on the url of each body of the model, computed once
Extracted == [body \in Bodies |-> extract_features(UrlOf(body))]

NoResponse == [code |-> 0, error |-> "", prediction |-> "", confidence |-> 0,
               phishing_score |-> 0, reasons |-> <<>>, model_used |-> ""]

ErrorResponse(code, error) == [NoResponse EXCEPT !.code = code, !.error = error]

\* a predict request that has not arrived
IdleRequest ==
    [pc |-> "idle", body |-> NoJson, url |-> PyNone, calls |-> <<>>,
     features |-> <<>>, path |-> "none",
     selBy |-> 0, predBy |-> 0, probaBy |-> 0, tagBy |-> 0,
     prediction |-> 0, status |-> "", confidence |-> 0, phishing_score |-> 0,
     resp |-> NoResponse]

IdleRetrain ==
    [pc |-> "idle", before |-> NoModel, trained |-> 0, failed |-> "none",
     success |-> FALSE, code |-> 0]

\* a load_model that clears the global when the artifact cannot be loaded
load_model_clearing(art, current, count) ==
    IF art.state = "ok"
       THEN [ok |-> TRUE, model |-> Classifier(count + 1, art.p1), loads |-> count + 1]
       ELSE [ok |-> FALSE, model |-> NoModel, loads |-> count]

\* load_model(), app.py:20-35: [ok, model, loads] for the artifact found.
\* The global is assigned only when pickle.load has returned an object.
load_model(art, current, count) ==
    IF art.state = "ok"
       THEN [ok |-> TRUE, model |-> Classifier(count + 1, art.p1), loads |-> count + 1]
       ELSE [ok |-> FALSE, model |-> current, loads |-> count]

\* app.py:38   load_model() at import time
Startup ==
    /\ ~booted
    /\ LET r == load_model(artifact, model, loads)
       IN  model' = r.model /\ loads' = r.loads
    /\ booted' = TRUE
    /\ UNCHANGED <<artifact, req, rt, retrains, model_status, call_vars>>

\* model.pkl is removed or damaged from outside the process
DiskFault ==
    /\ booted
    /\ artifact.state = "ok"
    /\ artifact' \in {NoArtifact, DamagedArtifact}
    /\ UNCHANGED <<model, booted, loads, req, rt, retrains, model_status, call_vars>>

\* health(), app.py:40-49: the global is read and reported
Health ==
    /\ booted
    /\ model_status' = IF model # NoModel THEN "loaded" ELSE "not_loaded"
    /\ UNCHANGED <<model, artifact, booted, loads, req, rt, retrains, call_vars>>

\* predict, app.py:72-80: the body is read, the url taken from it and the
\* features extracted; every exception ends in the handler of line 129
PredictReceive(c, body) ==
    /\ booted
    /\ req[c].pc = "idle"
    /\ LET url == UrlOf(body)
           fe  == Extracted[body]
       IN  req' = [req EXCEPT ![c] =
              IF body.kind # "dict"
                 THEN [@ EXCEPT !.pc = "done", !.body = body,
                                !.resp = ErrorResponse(500, "Prediction failed")]
              ELSE IF ~Truthy(url)
                 THEN [@ EXCEPT !.pc = "done", !.body = body, !.url = url,
                                !.resp = ErrorResponse(400, "URL is required")]
              ELSE IF fe.raised
                 THEN [@ EXCEPT !.pc = "done", !.body = body, !.url = url,
                                !.calls = <<"extract_features">>,
                                !.resp = ErrorResponse(500, "Prediction failed")]
              ELSE [@ EXCEPT !.pc = "select", !.body = body, !.url = url,
                             !.calls = <<"extract_features">>,
                             !.features = fe.value]]
    /\ UNCHANGED <<model, artifact, booted, loads, rt, retrains, model_status, call_vars>>

\* app.py:83 and 98-106: the global is read; without a classifier the mock
\* branch runs
PredictSelect(c) ==
    /\ req[c].pc = "select"
    /\ req' = [req EXCEPT ![c] =
          IF model # NoModel
             THEN [@ EXCEPT !.pc = "classify", !.path = "model", !.selBy = model.id]
             ELSE LET m == mock_prediction(req[c].features)
                  IN  [@ EXCEPT !.pc = "respond", !.path = "mock",
                                !.calls = Append(@, "calculate_mock_score"),
                                !.status = m.status,
                                !.confidence = m.confidence,
                                !.phishing_score = m.phishing_score]]
    /\ UNCHANGED <<model, artifact, booted, loads, rt, retrains, model_status, call_vars>>

\* app.py:85   prediction = model.predict([features])[0]
PredictClassify(c) ==
    /\ req[c].pc = "classify"
    /\ req' = [req EXCEPT ![c] =
          IF model = NoModel
             THEN [@ EXCEPT !.pc = "done",
                            !.resp = ErrorResponse(500, "Prediction failed")]
             ELSE [@ EXCEPT !.pc = "proba",
                            !.calls = Append(@, "model.predict"),
                            !.prediction = ModelPredict(model, req[c].features),
                            !.predBy = model.id]]
    /\ UNCHANGED <<model, artifact, booted, loads, rt, retrains, model_status, call_vars>>

\* app.py:86-96   probability = model.predict_proba([features])[0], then the
\* status, confidence and score
PredictProba(c) ==
    /\ req[c].pc = "proba"
    /\ req' = [req EXCEPT ![c] =
          IF model = NoModel
             THEN [@ EXCEPT !.pc = "done",
                            !.resp = ErrorResponse(500, "Prediction failed")]
             ELSE LET m == model_prediction(req[c].prediction,
                                            ModelPredictProba(model, req[c].features))
                  IN  [@ EXCEPT !.pc = "respond",
                                !.calls = Append(@, "model.predict_proba"),
                                !.probaBy = model.id,
                                !.status = m.status,
                                !.confidence = m.confidence,
                                !.phishing_score = m.phishing_score]]
    /\ UNCHANGED <<model, artifact, booted, loads, rt, retrains, model_status, call_vars>>

\* app.py:109-127   the reasons and the response; model_used reads the global
PredictRespond(c) ==
    /\ req[c].pc = "respond"
    /\ req' = [req EXCEPT ![c] =
          [@ EXCEPT !.pc = "done",
                    !.tagBy = model.id,
                    !.resp = [code           |-> 200,
                              error          |-> "",
                              prediction     |-> req[c].status,
                              confidence     |-> Round3(req[c].confidence),
                              phishing_score |-> req[c].phishing_score,
                              reasons        |-> get_reasons(req[c].features),
                              model_used     |-> IF model # NoModel
                                                    THEN "Random Forest"
                                                    ELSE "Mock"]]]
    /\ UNCHANGED <<model, artifact, booted, loads, rt, retrains, model_status, call_vars>>

\* retrain_model, app.py:221-225: a retrain request arrives
RetrainStart ==
    /\ booted
    /\ rt.pc \in {"idle", "done"}
    /\ retrains < MaxRetrains
    /\ rt' = [IdleRetrain EXCEPT !.pc = "train", !.before = model]
    /\ retrains' = retrains + 1
    /\ UNCHANGED <<model, artifact, booted, loads, req, model_status, call_vars>>

\* app.py:226 with train_model.py:86-160: the forest is fitted and
\* evaluated, or an exception reaches the handler of line 236
RetrainTrain ==
    /\ rt.pc = "train"
    /\ \/ \E p \in ProbLevels : rt' = [rt EXCEPT !.pc = "write", !.trained = p]
       \/ rt' = [rt EXCEPT !.pc = "done", !.failed = "train",
                           !.success = FALSE, !.code = 500]
    /\ UNCHANGED <<model, artifact, booted, loads, req, retrains, model_status, call_vars>>

\* train_model.py:162-172: open(model_path, 'wb') truncates the file and
\* pickle.dump fills it, or fails and leaves it truncated
RetrainWrite ==
    /\ rt.pc = "write"
    /\ \/ /\ artifact' = Pickled(rt.trained)
          /\ rt' = [rt EXCEPT !.pc = "reload"]
       \/ /\ artifact' = DamagedArtifact
          /\ rt' = [rt EXCEPT !.pc = "done", !.failed = "write",
                              !.success = FALSE, !.code = 500]
    /\ UNCHANGED <<model, booted, loads, req, retrains, model_status, call_vars>>

\* app.py:228-235: load_model() is called, its result is not looked at,
\* and the success response is returned
RetrainReload ==
    /\ rt.pc = "reload"
    /\ LET r == load_model(artifact, model, loads)
       IN  /\ model' = r.model
           /\ loads' = r.loads
           /\ rt' = [rt EXCEPT !.pc = "done",
                               !.failed = IF r.ok THEN "none" ELSE "reload",
                               !.success = TRUE, !.code = 200]
    /\ UNCHANGED <<artifact, booted, req, retrains, model_status, call_vars>>

ServerIdle ==
    /\ fn = "server" /\ arg = PyNone /\ step = 0 /\ ret = PyNone /\ ret2 = PyNone

Init ==
    /\ model = NoModel
    /\ artifact \in {NoArtifact, DamagedArtifact} \cup {Pickled(p) : p \in ProbLevels}
    /\ booted = FALSE
    /\ loads = 0
    /\ req = [c \in Clients |-> IdleRequest]
    /\ rt = IdleRetrain
    /\ retrains = 0
    /\ model_status = ""
    /\ ServerIdle

Next ==
    \/ Startup
    \/ DiskFault
    \/ Health
    \/ \E c \in Clients : \E body \in Bodies : PredictReceive(c, body)
    \/ \E c \in Clients : PredictSelect(c)
    \/ \E c \in Clients : PredictClassify(c)
    \/ \E c \in Clients : PredictProba(c)
    \/ \E c \in Clients : PredictRespond(c)
    \/ RetrainStart
    \/ RetrainTrain
    \/ RetrainWrite
    \/ RetrainReload

Spec == Init /\ [][Next]_vars

----------------------------------------------------------------------------
(* Direct calls of the pure functions                                      *)

\* fragments joined into one argument string
MaxParts == 3

\* the API process does not run during direct calls
ServerOff ==
    /\ model = NoModel
    /\ artifact = NoArtifact
    /\ booted = FALSE
    /\ loads = 0
    /\ req = [c \in Clients |-> IdleRequest]
    /\ rt = IdleRetrain
    /\ retrains = 0
    /\ model_status = ""

RECURSIVE Joined(_, _)
\* the strings made of at most k fragments
Joined(fragments, k) ==
    IF k = 0 THEN {<<>>}
    ELSE LET shorter == Joined(fragments, k - 1)
         IN  shorter \cup {Cat(s, f) : s \in shorter, f \in fragments}

SanitizeFragments ==
    { Str(<<"&">>), Str(<<"<">>), Str(<<">">>), Str(<<"\"">>), Str(<<"'">>),
      Str(<<"NUL">>), Str(<<" ">>), Str(<<"a">>),
      Str(<<"&", "a", "m", "p", ";">>),
      Rep("a", 2040), Rep("a", 2047) }

\* arguments of sanitize_input: strings, and values that are no strings
SanitizeInputs ==
    {PyStrVal(s) : s \in Joined(SanitizeFragments, MaxParts)}
    \cup {PyIntVal(k) : k \in {0, 2047, 2048}}
    \cup {PyNone}

InitSanitize ==
    /\ ServerOff
    /\ fn = "sanitize_input"
    /\ arg \in SanitizeInputs
    /\ step = 0
    /\ ret = PyNone
    /\ ret2 = PyNone

\* sanitize_input(arg)
CallSanitize ==
    /\ fn = "sanitize_input"
    /\ step = 0
    /\ ret' = PyStrVal(sanitize_input(arg))
    /\ step' = 1
    /\ UNCHANGED <<server_vars, fn, arg, ret2>>

\* sanitize_input(sanitize_input(arg))
CallSanitizeAgain ==
    /\ fn = "sanitize_input"
    /\ step = 1
    /\ ret2' = PyStrVal(sanitize_input(ret))
    /\ step' = 2
    /\ UNCHANGED <<server_vars, fn, arg, ret>>

NextSanitize == CallSanitize \/ CallSanitizeAgain

SpecSanitize == InitSanitize /\ [][NextSanitize]_vars

\* the calls whose argument is a string
InitSanitizeStr == InitSanitize /\ IsStr(arg)

SpecSanitizeStr == InitSanitizeStr /\ [][NextSanitize]_vars

UrlFragments ==
    { Str(<<"h", "t", "t", "p", ":", "/", "/">>),
      Str(<<"h", "t", "t", "p", "s", ":", "/", "/">>),
      Str(<<"H", "T", "T", "P", ":", "/", "/">>),
      Str(<<"f", "t", "p", ":", "/", "/">>),
      Str(<<"h", "t", "t", "p", ":">>),
      Str(<<"a", ".", "c", "o", "m">>),
      Str(<<"/">>),
      Str(<<"[">>),
      Str(<<"j", "a", "v", "a", "s", "c", "r", "i", "p", "t", ":">>),
      Str(<<"J", "a", "v", "a", "S", "c", "r", "i", "p", "t", ":">>),
      Str(<<"d", "a", "t", "a", ":">>),
      Str(<<"<", "s", "c", "r", "i", "p", "t">>),
      Str(<<"a", "l", "e", "r", "t", "(">>),
      Rep("a", 2041) }

InitValidate ==
    /\ ServerOff
    /\ fn = "validate_url"
    /\ arg \in {PyStrVal(s) : s \in Joined(UrlFragments, MaxParts)}
    /\ step = 0
    /\ ret = Verdict(FALSE, "", 0)
    /\ ret2 = PyNone

\* validate_url(arg)
CallValidate ==
    /\ fn = "validate_url"
    /\ step = 0
    /\ ret' = validate_url(arg.s)
    /\ step' = 1
    /\ UNCHANGED <<server_vars, fn, arg, ret2>>

NextValidate == CallValidate

SpecValidate == InitValidate /\ [][NextValidate]_vars

\* feature vectors given to the fallback scorer
FeatureVectors ==
    { <<url_length, has_ip, has_at, num_digits, has_https, num_subdomains, has_brand_typo>> :
        url_length \in {22, 75, 76}, has_ip \in {0, 1}, has_at \in {0, 1},
        num_digits \in {0, 11}, has_https \in {0, 1},
        num_subdomains \in {-1, 3, 4}, has_brand_typo \in {0, 1} }

InitMock ==
    /\ ServerOff
    /\ fn = "calculate_mock_score"
    /\ arg \in FeatureVectors
    /\ step = 0
    /\ ret = [phishing_score |-> 0, confidence |-> 0, status |-> ""]
    /\ ret2 = PyNone

\* the fallback branch of predict on arg
CallMock ==
    /\ fn = "calculate_mock_score"
    /\ step = 0
    /\ ret' = mock_prediction(arg)
    /\ step' = 1
    /\ UNCHANGED <<server_vars, fn, arg, ret2>>

NextMock == CallMock

SpecMock == InitMock /\ [][NextMock]_vars

InitReasons ==
    /\ ServerOff
    /\ fn = "get_reasons"
    /\ arg \in FeatureVectors
    /\ step = 0
    /\ ret = <<>>
    /\ ret2 = PyNone

\* get_reasons(arg)
CallReasons ==
    /\ fn = "get_reasons"
    /\ step = 0
    /\ ret' = get_reasons(arg)
    /\ step' = 1
    /\ UNCHANGED <<server_vars, fn, arg, ret2>>

NextReasons == CallReasons

SpecReasons == InitReasons /\ [][NextReasons]_vars

\* pieces of domain names given to is_safe_domain
SafeDomainFragments ==
    { Str(<<"g", "o", "o", "g", "l", "e", ".", "c", "o", "m">>),
      Str(<<"G", "O", "O", "G", "L", "E", ".", "C", "O", "M">>),
      Str(<<"a", "m", "a", "z", "o", "n", ".", "c", "o", "m">>),
      Str(<<"a", "w", "s", ".">>),
      Str(<<"m", "a", "i", "l", ".">>),
      Str(<<"e", "v", "i", "l">>),
      Str(<<".">>),
      Str(<<"c", "o", "m">>) }

InitSafeDomain ==
    /\ ServerOff
    /\ fn = "is_safe_domain"
    /\ arg \in {PyStrVal(s) : s \in Joined(SafeDomainFragments, MaxParts)} \cup {PyNone}
    /\ step = 0
    /\ ret = FALSE
    /\ ret2 = PyNone

\* is_safe_domain(arg)
CallSafeDomain ==
    /\ fn = "is_safe_domain"
    /\ step = 0
    /\ ret' = is_safe_domain(arg)
    /\ step' = 1
    /\ UNCHANGED <<server_vars, fn, arg, ret2>>

NextSafeDomain == CallSafeDomain

SpecSafeDomain == InitSafeDomain /\ [][NextSafeDomain]_vars

\* the scheme and "//" in front of the authority
SchemePrefixes ==
    { Str(<<"h", "t", "t", "p", ":", "/", "/">>),
      Str(<<"h", "t", "t", "p", "s", ":", "/", "/">>) }

\* pieces of authorities: brands, misspelt brands, affixes, labels and dots
DomainFragments ==
    { Str(<<"g", "o", "o", "g", "l", "e">>),
      Str(<<"g", "0", "0", "g", "l", "e">>),
      Str(<<"G", "0", "0", "g", "l", "e">>),
      Str(<<"p", "a", "y", "p", "a", "l">>),
      Str(<<"-", "l", "o", "g", "i", "n">>),
      Str(<<"s", "e", "c", "u", "r", "e", "-">>),
      Str(<<"d", "o", "c", "s", ".">>),
      Str(<<".", "c", "o", "m">>),
      Str(<<".", "n", "e", "t">>) }

\* URLs given to extract_features
FeatureUrls ==
    {Cat(p, d) : p \in SchemePrefixes, d \in Joined(DomainFragments, MaxParts)}

InitFeatures ==
    /\ ServerOff
    /\ fn = "extract_features"
    /\ arg \in {PyStrVal(s) : s \in FeatureUrls}
    /\ step = 0
    /\ ret = <<>>
    /\ ret2 = PyNone

\* extract_features(arg)
CallExtract ==
    /\ fn = "extract_features"
    /\ step = 0
    /\ LET features == extract_features(arg)
       IN  ~features.raised /\ ret' = features.value
    /\ step' = 1
    /\ UNCHANGED <<server_vars, fn, arg, ret2>>

NextFeatures == CallExtract

SpecFeatures == InitFeatures /\ [][NextFeatures]_vars

\* pieces of URLs with dots in the authority, in the user part and in the path
DottedFragments ==
    { Str(<<"a", ".", "b", ".", "c", ".">>),
      Str(<<"a", ".">>),
      Str(<<"c", "o", "m">>),
      Str(<<"/", "p", ".", "q", ".", "r", ".", "s", ".", "t", ".", "u">>),
      Str(<<"1", ".", "2", ".", "3", ".", "4">>),
      Str(<<".", "t", "k">>),
      Str(<<"b", "i", "t", ".", "l", "y">>),
      Str(<<"u", ".", "v", "@">>) }

\* URLs given to detect_suspicious_patterns and to extract_features
DottedUrls ==
    {Cat(p, d) : p \in SchemePrefixes \cup {<<>>}, d \in Joined(DottedFragments, MaxParts)}

InitSuspicious ==
    /\ ServerOff
    /\ fn = "detect_suspicious_patterns"
    /\ arg \in {PyStrVal(s) : s \in DottedUrls}
    /\ step = 0
    /\ ret = <<>>
    /\ ret2 = <<>>

\* detect_suspicious_patterns(arg)
CallDetect ==
    /\ fn = "detect_suspicious_patterns"
    /\ step = 0
    /\ LET suspicious == detect_suspicious_patterns(arg.s)
       IN  ~suspicious.raised /\ ret' = suspicious.value
    /\ step' = 1
    /\ UNCHANGED <<server_vars, fn, arg, ret2>>

\* extract_features(arg), on the URL detect_suspicious_patterns was given
CallExtractSame ==
    /\ fn = "detect_suspicious_patterns"
    /\ step = 1
    /\ LET features == extract_features(arg)
       IN  ~features.raised /\ ret2' = features.value
    /\ step' = 2
    /\ UNCHANGED <<server_vars, fn, arg, ret>>

NextSuspicious == CallDetect \/ CallExtractSame

SpecSuspicious == InitSuspicious /\ [][NextSuspicious]_vars

\* pieces of the url field of an API request
RequestFragments ==
    { Str(<<"h", "t", "t", "p", ":", "/", "/">>),
      Str(<<"a", ".", "c", "o", "m">>),
      Str(<<"<", "s", "c", "r", "i", "p", "t">>),
      Str(<<"<", "/", "i", "f", "r", "a", "m", "e", ">">>),
      Str(<<"j", "a", "v", "a", "s", "c", "r", "i", "p", "t", ":">>),
      Str(<<"&">>),
      Str(<<" ">>),
      Str(<<"NUL">>),
      Rep("a", 2041) }

\* request_data: JSON objects with a url, one without, and a value that is
\* no JSON object
RequestData ==
    {JsonUrl(PyStrVal(s)) : s \in Joined(RequestFragments, MaxParts)}
    \cup {JsonUrl(PyIntVal(2048)), JsonUrl(PyNone), JsonNoUrl, NoJson}

InitApiRequest ==
    /\ ServerOff
    /\ fn = "validate_api_request"
    /\ arg \in RequestData
    /\ step = 0
    /\ ret = [valid |-> FALSE, msg |-> "", pattern |-> 0, url |-> <<>>]
    /\ ret2 = PyNone

\* validate_api_request(arg)
CallApiRequest ==
    /\ fn = "validate_api_request"
    /\ step = 0
    /\ ret' = validate_api_request(arg)
    /\ step' = 1
    /\ UNCHANGED <<server_vars, fn, arg, ret2>>

NextApiRequest == CallApiRequest

SpecApiRequest == InitApiRequest /\ [][NextApiRequest]_vars

----------------------------------------------------------------------------
(* Properties                                                              *)

\* a predict request answered with the success response of line 118
Answered(r) == r.pc = "done" /\ r.resp.code = 200

\* C1: a predict response computed on the model path takes its fields from
\* one classifier object, whatever load_model does while the request is in
\* flight: the label (line 85) and the probabilities behind confidence and
\* phishing_score (line 86) are never answered by two different objects.
C1_OneClassifierPerResponse ==
    \A c \in Clients :
        Answered(req[c]) /\ req[c].path = "model"
            => req[c].predBy = req[c].probaBy

\* C2: model_used names the scorer that produced prediction and
\* phishing_score: "Random Forest" iff the model path ran, "Mock" iff
\* calculate_mock_score ran, and the model path runs iff a classifier was
\* loaded at the selection of line 83.
C2_TagNamesScorer ==
    \A c \in Clients :
        Answered(req[c])
            => /\ req[c].resp.model_used = "Random Forest" <=> req[c].path = "model"
               /\ req[c].resp.model_used = "Mock" <=> req[c].path = "mock"
               /\ req[c].path = "model" <=> req[c].selBy # 0

\* C3: a retrain that fails at training, at writing the artifact or at
\* reloading it leaves the classifier reference as it was and answers
\* success false; success is answered only when a new classifier has been
\* installed.
C3_RetrainFailureReported ==
    rt.pc = "done"
        => /\ rt.failed # "none" => model = rt.before /\ ~rt.success
           /\ rt.success => model # rt.before /\ model # NoModel

\* the position of the first call of f in the calls of a request, 0 if none
CallIndex(r, f) ==
    IF \E i \in DOMAIN r.calls : r.calls[i] = f
       THEN CHOOSE i \in DOMAIN r.calls :
               r.calls[i] = f /\ \A j \in 1..(i - 1) : r.calls[j] # f
       ELSE 0

\* the Validator rejects the url of the request
Rejected(r) == IsStr(r.url) /\ ~validate_url(r.url.s).valid

\* C4: extract_features and the scorers run only after sanitize_input and
\* validate_url ran on the request, and a url the Validator rejects (one
\* longer than 2048 characters in particular) is answered with a rejection
\* without extract_features being called.
C4_ValidatedBeforeExtraction ==
    \A c \in Clients :
        /\ CallIndex(req[c], "extract_features") # 0
              => /\ CallIndex(req[c], "sanitize_input") # 0
                 /\ CallIndex(req[c], "validate_url") # 0
                 /\ CallIndex(req[c], "validate_url") < CallIndex(req[c], "extract_features")
        /\ req[c].pc # "idle" /\ Rejected(req[c])
              => /\ CallIndex(req[c], "extract_features") = 0
                 /\ req[c].pc = "done" /\ req[c].resp.code = 400

\* C5: extract_features returns a vector of 7 elements for every URL string
\* and never raises, a failed parse giving seven zeros, so that no predict
\* request with a URL string is answered with the error of line 131.
C5_ExtractionTotal ==
    \A c \in Clients :
        req[c].pc # "idle" /\ IsStr(req[c].url) /\ Truthy(req[c].url)
            => /\ ~extract_features(req[c].url).raised
               /\ Len(extract_features(req[c].url).value) = 7
               /\ urlparse(req[c].url.s).raised
                     => extract_features(req[c].url).value = <<0, 0, 0, 0, 0, 0, 0>>
               /\ req[c].resp.code # 500

\* C6: sanitize_input(sanitize_input(x)) = sanitize_input(x) for every x.
C6_SanitizeIdempotent ==
    fn = "sanitize_input" /\ step = 2 => ret2 = ret

\* C7: the result of sanitize_input, for a string or any other value, has
\* at most 2048 characters and no null byte.
C7_SanitizedBounded ==
    fn = "sanitize_input" /\ step >= 1
        => PyLen(ret.s) <= 2048 /\ ~HasChar(ret.s, "NUL")

\* some dangerous pattern occurs in url, in whatever letter case
DangerousInAnyCase(url) ==
    \E i \in DOMAIN malicious_patterns : Contains(Lower(url), malicious_patterns[i])

HttpSchemes == {Str(<<"h", "t", "t", "p">>), Str(<<"h", "t", "t", "p", "s">>)}

\* C8: a URL validate_url accepts is non-empty, has at most 2048
\* characters, parses to the scheme http or https and a non-empty authority,
\* and holds no dangerous pattern in any letter case (so a URL holding
\* "javascript:" is rejected whatever its scheme and authority).
C8_AcceptedUrlsAreSafe ==
    fn = "validate_url" /\ step = 1 /\ ret.valid
        => /\ arg.s # <<>>
           /\ PyLen(arg.s) <= 2048
           /\ ~urlparse(arg.s).raised
           /\ urlparse(arg.s).scheme \in HttpSchemes
           /\ urlparse(arg.s).netloc # <<>>
           /\ ~DangerousInAnyCase(arg.s)

\* an accepted URL of exactly 2048 characters
C8_Witness ==
    fn = "validate_url" /\ step = 1 /\ ret.valid /\ PyLen(arg.s) = 2048

\* the rules of validate_url, each on its own
RuleFails(url, k) ==
    CASE k = 1 -> url = <<>>
      [] k = 2 -> PyLen(url) > 2048
      [] k = 3 -> DangerousInAnyCase(url)
      [] k = 4 -> urlparse(url).scheme = <<>> \/ urlparse(url).netloc = <<>>
      [] k = 5 -> urlparse(url).scheme \notin HttpSchemes

RuleMessage == <<"URL cannot be empty",
                 "URL too long (max 2048 characters)",
                 "URL contains potentially malicious content",
                 "Invalid URL format",
                 "Only HTTP and HTTPS URLs are supported">>

\* the rules that are evaluated: the last two only when the parse succeeds
RulesOf(url) ==
    IF urlparse(url).raised THEN 1..3 ELSE 1..5

\* C9: validate_url reports the first rule that fails, in the order empty,
\* too long, dangerous pattern, missing scheme or authority, scheme other
\* than http/https; it accepts when no rule fails.
C9_FirstFailureWins ==
    fn = "validate_url" /\ step = 1
        => LET failing == {k \in RulesOf(arg.s) : RuleFails(arg.s, k)}
           IN  IF failing # {}
                  THEN /\ ~ret.valid
                       /\ \E k \in failing :
                             /\ \A j \in failing : k <= j
                             /\ ret.msg = RuleMessage[k]
               ELSE IF urlparse(arg.s).raised
                  THEN ~ret.valid /\ ret.msg = "URL parsing error"
               ELSE ret.valid /\ ret.msg = ""

\* an over-long URL that also holds a dangerous pattern, reported as too long
C9_Witness ==
    /\ fn = "validate_url" /\ step = 1
    /\ PyLen(arg.s) > 2048 /\ DangerousInAnyCase(arg.s)
    /\ ret.msg = "URL too long (max 2048 characters)"

\* [p], 1 when p holds and 0 otherwise
Ind(p) == IF p THEN 1 ELSE 0

\* the weighted sum of the fallback scorer
WeightedSum(f) ==
    25 * Ind(f[1] > 75) + 30 * Ind(f[2] = 1) + 20 * Ind(f[3] = 1)
    + 15 * Ind(f[5] = 0) + 35 * Ind(f[7] = 1) + 10 * Ind(f[6] > 3)

\* C10: without a classifier the score is min(100, weighted sum), lies in
\* 0..100, the label is Phishing iff the score is at least 70 and Safe
\* otherwise, and the confidence is 0.8.
C10_MockScore ==
    fn = "calculate_mock_score" /\ step = 1
        => /\ ret.phishing_score = Min(100, WeightedSum(arg))
           /\ ret.phishing_score \in 0..100
           /\ ret.status = "Phishing" <=> ret.phishing_score >= 70
           /\ ret.status = "Safe" <=> ret.phishing_score < 70
           /\ 10 * ret.confidence = 8 * ProbScale

\* a vector whose weighted sum exceeds 100, scored 100 and labelled Phishing
C10_Witness ==
    /\ fn = "calculate_mock_score" /\ step = 1
    /\ WeightedSum(arg) > 100
    /\ ret.phishing_score = 100 /\ ret.status = "Phishing"

\* n/d rounded to the nearest integer (n >= 0, d > 0)
RoundNearest(n, d) == (2 * n + d) \div (2 * d)

\* C11: with a classifier, phishing_score is the nearest-integer rounding of
\* the percentage: round(P(phishing) * 100) for the label Phishing and
\* round((1 - P(legitimate)) * 100) for the label Safe, an integer in 0..100.
C11_ScoreRounded ==
    \A c \in Clients :
        Answered(req[c]) /\ req[c].path = "model"
            => /\ req[c].resp.phishing_score \in 0..100
               /\ req[c].resp.prediction = "Phishing"
                     => req[c].resp.phishing_score
                          = RoundNearest(req[c].confidence * 100, ProbScale)
               /\ req[c].resp.prediction = "Safe"
                     => req[c].resp.phishing_score
                          = RoundNearest((ProbScale - req[c].confidence) * 100,
                                         ProbScale)

\* brand with every from written to
Subst(brand, from, to) ==
    Canon([i \in DOMAIN brand |->
              IF brand[i].c = from THEN Run(to, brand[i].n) ELSE brand[i]])

\* the character-substituted variants of a brand
Substituted(brand) ==
    { Subst(brand, "o", "0"), Subst(brand, "l", "1"),
      Subst(brand, "i", "1"), Subst(brand, "e", "3") }

\* the affixed variants of a brand
Affixed(brand) ==
    { Cat(brand, Str(<<"-", "l", "o", "g", "i", "n">>)),
      Cat(brand, Str(<<"-", "v", "e", "r", "i", "f", "y">>)),
      Cat(brand, Str(<<"-", "s", "e", "c", "u", "r", "e">>)),
      Cat(Str(<<"s", "e", "c", "u", "r", "e", "-">>), brand) }

BrandSet == {brands[b] : b \in DOMAIN brands}

\* the candidates of each brand
Candidates == [brand \in BrandSet |-> Substituted(brand) \cup Affixed(brand)]

\* the authority of the URL extract_features was called on
Authority == urlparse(arg.s).netloc

AuthG00gleLogin ==
    Str(<<"g", "0", "0", "g", "l", "e", "-", "l", "o", "g", "i", "n", ".", "c", "o", "m">>)
AuthGoogle == Str(<<"g", "o", "o", "g", "l", "e", ".", "c", "o", "m">>)
AuthDocsGoogle ==
    Str(<<"d", "o", "c", "s", ".", "g", "o", "o", "g", "l", "e", ".", "c", "o", "m">>)

\* C12: has_brand_typo is 1 iff some candidate of some brand (a substituted
\* or an affixed variant) is a substring of the lower-cased authority while
\* that brand is not; it is 1 for g00gle-login.com and 0 for google.com and
\* docs.google.com.
C12_BrandTypo ==
    fn = "extract_features" /\ step = 1
        => LET domain    == Authority
               authority == Lower(domain)
           IN  /\ ret[7] \in {0, 1}
               /\ ret[7] = 1 <=>
                     \E brand \in BrandSet :
                        /\ \E cand \in Candidates[brand] :
                              Contains(authority, cand)
                        /\ ~Contains(authority, brand)
               /\ domain = AuthG00gleLogin => ret[7] = 1
               /\ domain \in {AuthGoogle, AuthDocsGoogle} => ret[7] = 0

\* the authorities the claim names have been scored
C12_Witness ==
    /\ fn = "extract_features" /\ step = 1
    /\ Authority = AuthG00gleLogin /\ ret[7] = 1

\* the seven predicates of get_reasons, in the order of the claim
ReasonPredicates(f) ==
    << f[1] > 75, f[2] = 1, f[3] = 1, f[5] = 0, f[7] = 1, f[6] > 3, f[4] > 10 >>

\* the reason of each predicate
ReasonTexts ==
    << "Unusually long URL detected (potential obfuscation)",
       "URL contains IP address instead of domain name",
       "URL contains @ symbol (potential redirect)",
       "Not using secure HTTPS protocol",
       "Possible brand impersonation detected",
       "Excessive number of subdomains",
       "High number of digits in URL (suspicious pattern)" >>

DefaultReason == "URL appears to follow standard patterns"

\* C13: get_reasons returns the reasons of the true predicates, one each, in
\* the order length>75, has_ip, has_at, not has_https, has_brand_typo,
\* subdomains>3, digits>10; it returns the default reason alone iff no
\* predicate is true; the list is never empty and the default reason never
\* stands beside another one.
C13_Reasons ==
    fn = "get_reasons" /\ step = 1
        => LET fired == {k \in 1..7 : ReasonPredicates(arg)[k]}
           IN  /\ ret # <<>>
               /\ fired = {} <=> ret = <<DefaultReason>>
               /\ (\E i \in DOMAIN ret : ret[i] = DefaultReason) => Len(ret) = 1
               /\ fired # {} =>
                     /\ Len(ret) = Cardinality(fired)
                     /\ \A k \in fired :
                           ret[Cardinality({j \in fired : j <= k})] = ReasonTexts[k]

\* all seven predicates true and seven reasons returned; with the reason of
\* the brand test before that of the subdomain test
C13_Witness ==
    /\ fn = "get_reasons" /\ step = 1
    /\ \A k \in 1..7 : ReasonPredicates(arg)[k]
    /\ Len(ret) = 7

\* the character of s at position k (from 1)
CharAt(s, k) == Take(Drop(s, k - 1), 1)[1].c

\* the suffixes of d that begin at a label boundary: d itself and what
\* follows each of its dots
LabelSuffixes(d) ==
    {d} \cup {Drop(d, k) : k \in {j \in 1..PyLen(d) : CharAt(d, j) = "."}}

DomMailGoogle == Str(<<"m", "a", "i", "l", ".", "g", "o", "o", "g", "l", "e", ".", "c", "o", "m">>)
DomEvilGoogle == Str(<<"e", "v", "i", "l", "g", "o", "o", "g", "l", "e", ".", "c", "o", "m">>)

\* C14: is_safe_domain(d) is true iff a suffix of the lower-cased d that
\* begins at a label boundary is in the safe-domain set; mail.google.com is
\* safe, evilgoogle.com is not, the empty domain is not.
C14_SafeDomain ==
    fn = "is_safe_domain" /\ step = 1
        => /\ ~IsStr(arg) => ret = FALSE
           /\ IsStr(arg) =>
                 /\ ret = (arg.s # <<>> /\ LabelSuffixes(Lower(arg.s)) \cap safe_domains # {})
                 /\ arg.s = <<>> => ret = FALSE
                 /\ arg.s = DomMailGoogle => ret = TRUE
                 /\ arg.s = DomEvilGoogle => ret = FALSE

\* a subdomain of a safe domain, in capital letters, found safe
C14_Witness ==
    /\ fn = "is_safe_domain" /\ step = 1
    /\ IsStr(arg) /\ arg.s # Lower(arg.s)
    /\ Lower(arg.s) = DomMailGoogle
    /\ ret = TRUE

\* the body of a predict request carries no url: no JSON object, no url
\* field, or an empty url
NoUrl(body) == body.kind # "dict" \/ ~body.has_url \/ body.url = PyStrVal(<<>>)

\* C15: a predict request without a url is answered with an error (an error
\* text and an error status), and neither extract_features nor a scorer has
\* run for it.
C15_MissingUrlRejected ==
    \A c \in Clients :
        req[c].pc # "idle" /\ NoUrl(req[c].body)
            => /\ req[c].pc = "done"
               /\ req[c].resp.code \in {400, 500}
               /\ req[c].resp.error # ""
               /\ req[c].resp.prediction = ""
               /\ req[c].calls = <<>>
               /\ req[c].path = "none"

\* a request without a JSON object, answered through the handler of line 129
C15_Witness ==
    \E c \in Clients :
        /\ req[c].pc = "done" /\ req[c].body = NoJson
        /\ req[c].resp.code = 500 /\ req[c].calls = <<>>

\* C16: num_subdomains is the number of dots of the authority less one when
\* the authority is not empty and 0 when it is empty: -1 for an authority
\* without a dot, never below -1, not raised to zero.
C16_NumSubdomains ==
    fn = "extract_features" /\ step = 1
        => LET domain == Authority
               dots   == Len(Split(domain, ".")) - 1
           IN  /\ ret[6] = (IF domain = <<>> THEN 0 ELSE dots - 1)
               /\ ret[6] >= -1
               /\ domain # <<>> /\ dots = 0 => ret[6] = -1

\* an authority without a dot, counted -1
C16_Witness ==
    /\ fn = "extract_features" /\ step = 1
    /\ Authority # <<>> /\ ~HasChar(Authority, ".")
    /\ ret[6] = -1

\* C17: once the classifier reference is not null it is never null again,
\* whatever startup, predict, health and retrain steps follow, with the
\* artifact missing or unreadable at any of them; and once health has
\* reported loaded it never reports not_loaded.
C17_ModelNeverUnloaded ==
    [][ /\ model # NoModel => model' # NoModel
        /\ model_status = "loaded" => model_status' # "not_loaded" ]_vars

\* a reload that found the artifact missing or unreadable while a
\* classifier was loaded, and health reporting loaded after it
C17_Witness ==
    /\ rt.pc = "done" /\ rt.failed = "reload"
    /\ rt.before # NoModel
    /\ model = rt.before
    /\ model_status = "loaded"

\* x occurs in the sequence s
InSeq(x, s) == \E i \in DOMAIN s : s[i] = x

\* C18: for every URL, detect_suspicious_patterns emits "Excessive
\* subdomains" exactly when extract_features yields num_subdomains > 3, that
\* is exactly when get_reasons emits its subdomain reason and
\* calculate_mock_score adds 10 for the subdomains.
C18_SameSubdomainThreshold ==
    fn = "detect_suspicious_patterns" /\ step = 2
        => LET excessive == InSeq("Excessive subdomains", ret)
               without   == [ret2 EXCEPT ![6] = 0]
           IN  /\ excessive <=> ret2[6] > 3
               /\ excessive <=> InSeq(ReasonTexts[6], get_reasons(ret2))
               /\ calculate_mock_score(ret2)
                     = Min(100, WeightedSum(without) + (IF excessive THEN 10 ELSE 0))

\* an authority of exactly five dots, the fewest that both count excessive
C18_Witness ==
    /\ fn = "detect_suspicious_patterns" /\ step = 2
    /\ CountChar(urlparse(arg.s).netloc, ".") = 5
    /\ InSeq("Excessive subdomains", ret)
    /\ ret2[6] = 4

\* the dangerous patterns that hold "<"
AnglePatterns == {i \in DOMAIN malicious_patterns : HasChar(malicious_patterns[i], "<")}

\* C19: validate_api_request on a string url never rejects it as too long
\* and never rejects it for a dangerous pattern that holds "<" (<script,
\* </script>, <iframe, </iframe>): what validate_url is given has at most
\* 2048 characters and no "<".
C19_NoLengthNoAngleRejection ==
    fn = "validate_api_request" /\ step = 1
    /\ arg.kind = "dict" /\ arg.has_url /\ IsStr(arg.url)
        => /\ ret.msg # "URL too long (max 2048 characters)"
           /\ ret.pattern \notin AnglePatterns
           /\ ret.valid => PyLen(ret.url) <= 2048 /\ ~HasChar(ret.url, "<")

\* a url of more than 2048 characters that holds <script, rejected for its
\* format
C19_Witness ==
    /\ fn = "validate_api_request" /\ step = 1
    /\ arg.kind = "dict" /\ arg.has_url /\ IsStr(arg.url)
    /\ PyLen(arg.url.s) > 2048
    /\ Contains(arg.url.s, Str(<<"<", "s", "c", "r", "i", "p", "t">>))
    /\ ~ret.valid /\ ret.msg = "Invalid URL format"

AuthPaypalLogin == Str(<<"p", "a", "y", "p", "a", "l", "-", "l", "o", "g", "i", "n", ".", "c", "o", "m">>)
AuthSecurePaypal == Str(<<"s", "e", "c", "u", "r", "e", "-", "p", "a", "y", "p", "a", "l", ".", "n", "e", "t">>)

\* the substituted variants of each brand that differ from it
Misspelt == [brand \in BrandSet |-> Substituted(brand) \ {brand}]

\* C20: the affixed candidates and the substitutions that leave the brand
\* as it is never set has_brand_typo: it is 1 iff for some brand a
\* substituted variant (o->0, l->1, i->1, e->3, every occurrence) that
\* differs from the brand is a substring of the lower-cased authority and
\* the brand is not; paypal-login.com and secure-paypal.net yield 0.
C20_OnlySubstitutionsCount ==
    fn = "extract_features" /\ step = 1
        => LET domain    == Authority
               authority == Lower(domain)
           IN  /\ ret[7] = 1 <=>
                     \E brand \in BrandSet :
                        /\ \E variant \in Misspelt[brand] :
                              Contains(authority, variant)
                        /\ ~Contains(authority, brand)
               /\ domain \in {AuthPaypalLogin, AuthSecurePaypal} => ret[7] = 0

\* the two authorities the claim names, both scored 0: here the one with
\* the affix behind the brand
C20_Witness ==
    /\ fn = "extract_features" /\ step = 1
    /\ Authority = AuthPaypalLogin
    /\ ret[7] = 0

====
